---- MODULE Spec2Model ----
(***************************************************************************)
(* A model of the qrust QR-code generator: the metadata tables of          *)
(* src/encode.rs (version_info, format_info), its segment encoders         *)
(* (encode_numeric, encode_alphanumeric) and the symbol matrix builder and *)
(* mask selector of src/matrix.rs (Matrix::new, place_*, apply_mask,       *)
(* score).                                                                 *)
(***************************************************************************)
EXTENDS Integers, Sequences, FiniteSets

(***************************************************************************)
(* Unsigned integer arithmetic on bits.  Every value that occurs fits its  *)
(* Rust type (usize, u32), so no wrap-around is involved in these.         *)
(***************************************************************************)
RECURSIVE Pow2(_)
Pow2(n) == IF n = 0 THEN 1 ELSE 2 * Pow2(n - 1)

\* a << k
Shl(a, k) == a * Pow2(k)

\* a >> k
Shr(a, k) == a \div Pow2(k)

\* a ^ b
RECURSIVE Xor(_, _)
Xor(a, b) ==
    IF a = 0 THEN b
    ELSE IF b = 0 THEN a
    ELSE (((a % 2) + (b % 2)) % 2) + 2 * Xor(a \div 2, b \div 2)

\* a | b
RECURSIVE BitOr(_, _)
BitOr(a, b) ==
    IF a = 0 THEN b
    ELSE IF b = 0 THEN a
    ELSE (IF (a % 2) + (b % 2) > 0 THEN 1 ELSE 0) + 2 * BitOr(a \div 2, b \div 2)

\* BITS - n.leading_zeros(): the position of the highest set bit, plus one
RECURSIVE BitLen(_)
BitLen(n) == IF n = 0 THEN 0 ELSE 1 + BitLen(n \div 2)

(***************************************************************************)
(* encode.rs: version_info() and format_info(), the two constant tables.   *)
(***************************************************************************)
\* 0b1_1111_0010_0101
VersionDivisor == 7973

\* 0b1_0000_0000_0000, the bound of version_info's inner while
VersionLimit == 4096

\* the last version, the bound of version_info's outer while
MaxVersion == 40

\* 0b101_0011_0111
FormatDivisor == 1335

\* 0b100_0000_0000, the bound of format_info's inner while
FormatLimit == 1024

\* 0b10101_0000010010
FormatXor == 21522

\* ECL as usize, in the order of format_info's ecls array
Low == 0
Medium == 1
Quartile == 2
High == 3
ECLs == {Low, Medium, Quartile, High}

\* Mask as usize
Masks == 0..7

\* the match on ecl in format_info
EclValue(ecl) ==
    CASE ecl = Low -> 1
      [] ecl = Medium -> 0
      [] ecl = Quartile -> 3
      [] ecl = High -> 2

\* one pass of version_info's inner while body
VersionDivStep(dividend) ==
    Xor(dividend, Shl(VersionDivisor, BitLen(dividend) - 13))

\* one pass of format_info's inner while body
FormatDivStep(dividend) ==
    Xor(dividend, Shl(FormatDivisor, BitLen(dividend) - 11))

\* an entry that keeps only the remainder
VersionEntryMut(shifted_version, dividend) == dividend
\* array[version] = shifted_version | dividend
VersionEntry(shifted_version, dividend) == BitOr(shifted_version, dividend)

\* an entry without the final XOR
FormatEntryMut(format, dividend) == BitOr(format, dividend)
\* array[i][mask] = (format | dividend) ^ 0b10101_0000010010
FormatEntry(format, dividend) == Xor(BitOr(format, dividend), FormatXor)

\* the inner while of version_info, run to its end
RECURSIVE VersionRemainder(_)
VersionRemainder(dividend) ==
    IF dividend >= VersionLimit
    THEN VersionRemainder(VersionDivStep(dividend))
    ELSE dividend

\* the inner while of format_info, run to its end
RECURSIVE FormatRemainder(_)
FormatRemainder(dividend) ==
    IF dividend >= FormatLimit
    THEN FormatRemainder(FormatDivStep(dividend))
    ELSE dividend

\* pub const VERSION_INFO: [usize; 41] = version_info()
VERSION_INFO ==
    [version \in 0..MaxVersion |->
        IF version = 0 THEN 0
        ELSE VersionEntry(Shl(version, 12), VersionRemainder(Shl(version, 12)))]

\* pub const FORMAT_INFO: [[u32; 8]; 4] = format_info()
FORMAT_INFO ==
    [i \in ECLs |-> [mask \in Masks |->
        FormatEntry(Shl(BitOr(Shl(EclValue(i), 3), mask), 10),
                    FormatRemainder(Shl(BitOr(Shl(EclValue(i), 3), mask), 10)))]]

(***************************************************************************)
(* The evaluation of the two const fns, loop pass by loop pass.            *)
(*   info.fn   which table is being computed                              *)
(*   info.pc   "outer": at the head of the outer while; "inner": at the    *)
(*             head of the inner while; "done": returned                   *)
(***************************************************************************)
VARIABLE info

InfoInit ==
    \E fn \in {"version_info", "format_info"} :
        info = IF fn = "version_info"
               THEN [fn |-> fn, pc |-> "outer", version |-> 1,
                     shifted_version |-> 0, dividend |-> 0,
                     array |-> [v \in 0..MaxVersion |-> 0]]
               ELSE [fn |-> fn, pc |-> "outer", i |-> 0, mask |-> 0,
                     format |-> 0, dividend |-> 0,
                     array |-> [e \in ECLs |-> [k \in Masks |-> 0]]]

\* version_info: while version <= 40 { shifted_version = ...; dividend = ... }
VersionOuter ==
    /\ info.fn = "version_info" /\ info.pc = "outer"
    /\ info.version <= MaxVersion
    /\ info' = [info EXCEPT !.shifted_version = Shl(info.version, 12),
                            !.dividend = Shl(info.version, 12),
                            !.pc = "inner"]

\* version_info: while dividend >= 0b1_0000_0000_0000 { dividend ^= divisor }
VersionDivide ==
    /\ info.fn = "version_info" /\ info.pc = "inner"
    /\ info.dividend >= VersionLimit
    /\ info' = [info EXCEPT !.dividend = VersionDivStep(info.dividend)]

\* version_info: array[version] = shifted_version | dividend; version += 1
VersionStore ==
    /\ info.fn = "version_info" /\ info.pc = "inner"
    /\ info.dividend < VersionLimit
    /\ info' = [info EXCEPT
                  !.array[info.version] =
                      VersionEntry(info.shifted_version, info.dividend),
                  !.version = info.version + 1,
                  !.pc = "outer"]

\* version_info: the outer while ends, the array is returned
VersionReturn ==
    /\ info.fn = "version_info" /\ info.pc = "outer"
    /\ info.version > MaxVersion
    /\ info' = [info EXCEPT !.pc = "done"]

\* format_info: while i < 4, while mask < 8 { format = ...; dividend = format }
FormatOuter ==
    /\ info.fn = "format_info" /\ info.pc = "outer"
    /\ info.i < 4 /\ info.mask < 8
    /\ info' = [info EXCEPT
                  !.format = Shl(BitOr(Shl(EclValue(info.i), 3), info.mask), 10),
                  !.dividend = Shl(BitOr(Shl(EclValue(info.i), 3), info.mask), 10),
                  !.pc = "inner"]

\* format_info: while dividend >= 0b100_0000_0000 { dividend ^= divisor }
FormatDivide ==
    /\ info.fn = "format_info" /\ info.pc = "inner"
    /\ info.dividend >= FormatLimit
    /\ info' = [info EXCEPT !.dividend = FormatDivStep(info.dividend)]

\* format_info: array[i][mask] = ...; mask += 1
FormatStore ==
    /\ info.fn = "format_info" /\ info.pc = "inner"
    /\ info.dividend < FormatLimit
    /\ info' = [info EXCEPT
                  !.array[info.i][info.mask] =
                      FormatEntry(info.format, info.dividend),
                  !.mask = info.mask + 1,
                  !.pc = "outer"]

\* format_info: the while over mask ends; i += 1 and mask starts again at 0
FormatNextEcl ==
    /\ info.fn = "format_info" /\ info.pc = "outer"
    /\ info.i < 4 /\ info.mask >= 8
    /\ info' = [info EXCEPT !.i = info.i + 1, !.mask = 0]

\* format_info: the outer while ends, the array is returned
FormatReturn ==
    /\ info.fn = "format_info" /\ info.pc = "outer"
    /\ info.i >= 4
    /\ info' = [info EXCEPT !.pc = "done"]

(***************************************************************************)
(* encode.rs: encode_numeric, encode_alphanumeric and their helpers.       *)
(* A byte is its value 0..255; a text is a sequence of bytes; the bit      *)
(* stream (Data.value with its running length) is a sequence of bits, the  *)
(* first pushed first.  A computation that can panic yields <<v>> when it  *)
(* returns v and <<>> when it panics.                                      *)
(***************************************************************************)
Numeric == "Numeric"
Alphanumeric == "Alphanumeric"

\* Data::push_bits(value, n): the n low bits of value, most significant first
PushBits(bits, value, n) ==
    bits \o [k \in 1..n |-> Shr(value, n - k) % 2]

\* fn bits_char_count_indicator, for the two modes that reach the match
bits_char_count_indicator(version, mode) ==
    LET base == IF mode = Numeric THEN 10 ELSE 9
        step1 == IF version > 9 THEN 2 ELSE 0
        step2 == IF version > 26 THEN 2 ELSE 0
    IN  base + step1 + step2

\* the result of u8 arithmetic whose exact value is x: x when it fits; on
\* overflow a panic with overflow checks ("debug"), wrapped without ("release")
U8(x, build) ==
    IF x >= 0 /\ x <= 255 THEN <<x>>
    ELSE IF build = "debug" THEN <<>>
    ELSE <<x % 256>>

\* input[k] - b'0'
Digit(c, build) == U8(c - 48, build)

\* ascii_to_b45 without the + 10 of the letters and without the table of
\* punctuation
ascii_to_b45Mut(c) ==
    IF c >= 65 THEN <<c - 65>>
    ELSE IF c >= 48 THEN <<c - 48>>
    ELSE <<>>
\* fn ascii_to_b45
ascii_to_b45(c) ==
    IF c >= 65 THEN <<c - 65 + 10>>
    ELSE IF c = 58 THEN <<44>>
    ELSE IF c >= 48 THEN <<c - 48>>
    ELSE IF c = 32 THEN <<36>>
    ELSE IF c = 36 THEN <<37>>
    ELSE IF c = 37 THEN <<38>>
    ELSE IF c = 42 THEN <<39>>
    ELSE IF c = 43 THEN <<40>>
    ELSE IF c = 45 THEN <<41>>
    ELSE IF c = 46 THEN <<42>>
    ELSE IF c = 47 THEN <<43>>
    ELSE <<>>

\* a match on len % 3 that drops the last one or two digits
NumericTailMut(bits, input, build) ==
    [value |-> bits, outcome |-> "returned"]
\* encode_numeric: the match on len % 3 after the for loop.  The result is
\* the stream and whether the call returned or panicked.
NumericTail(bits, input, build) ==
    LET len == Len(input) IN
    IF len % 3 = 1 THEN
        LET group == Digit(input[len], build) IN
        IF group = <<>> THEN [value |-> bits, outcome |-> "panicked"]
        ELSE [value |-> PushBits(bits, group[1], 4), outcome |-> "returned"]
    ELSE IF len % 3 = 2 THEN
        LET d1 == Digit(input[len - 1], build)
            t1 == IF d1 = <<>> THEN <<>> ELSE U8(d1[1] * 10, build)
            d2 == IF t1 = <<>> THEN <<>> ELSE Digit(input[len], build)
            group == IF d2 = <<>> THEN <<>> ELSE U8(t1[1] + d2[1], build)
        IN  IF group = <<>> THEN [value |-> bits, outcome |-> "panicked"]
            ELSE [value |-> PushBits(bits, group[1], 7), outcome |-> "returned"]
    ELSE [value |-> bits, outcome |-> "returned"]

\* encode_numeric: the for loop from pass i on, then the match
RECURSIVE NumericGroups(_, _, _, _)
NumericGroups(bits, input, i, build) ==
    IF i >= Len(input) \div 3 THEN NumericTail(bits, input, build)
    ELSE
        LET d1 == Digit(input[i * 3 + 1], build)
            d2 == IF d1 = <<>> THEN <<>> ELSE Digit(input[i * 3 + 2], build)
            d3 == IF d2 = <<>> THEN <<>> ELSE Digit(input[i * 3 + 3], build)
        IN  IF d3 = <<>> THEN [value |-> bits, outcome |-> "panicked"]
            ELSE NumericGroups(
                    PushBits(bits, d1[1] * 100 + d2[1] * 10 + d3[1], 10),
                    input, i + 1, build)

\* pub fn encode_numeric
encode_numeric(qrdata, input, build) ==
    NumericGroups(
        PushBits(PushBits(qrdata.value, 1, 4), Len(input),
                 bits_char_count_indicator(qrdata.version, Numeric)),
        input, 0, build)

\* encode_alphanumeric: the if on len & 1 after the for loop
AlphanumericTail(bits, input) ==
    IF Len(input) % 2 = 1 THEN
        LET c == ascii_to_b45(input[Len(input)]) IN
        IF c = <<>> THEN [value |-> bits, outcome |-> "panicked"]
        ELSE [value |-> PushBits(bits, c[1], 6), outcome |-> "returned"]
    ELSE [value |-> bits, outcome |-> "returned"]

\* encode_alphanumeric: the for loop from pass i on
RECURSIVE AlphanumericGroups(_, _, _)
AlphanumericGroups(bits, input, i) ==
    IF i >= Len(input) \div 2 THEN AlphanumericTail(bits, input)
    ELSE
        LET c0 == ascii_to_b45(input[i * 2 + 1])
            c1 == IF c0 = <<>> THEN <<>> ELSE ascii_to_b45(input[i * 2 + 2])
        IN  IF c1 = <<>> THEN [value |-> bits, outcome |-> "panicked"]
            ELSE AlphanumericGroups(PushBits(bits, c0[1] * 45 + c1[1], 11),
                                    input, i + 1)

\* pub fn encode_alphanumeric
encode_alphanumeric(qrdata, input) ==
    AlphanumericGroups(
        PushBits(PushBits(qrdata.value, 2, 4), Len(input),
                 bits_char_count_indicator(qrdata.version, Alphanumeric)),
        input, 0)

(***************************************************************************)
(* Calls of the encoders.                                                  *)
(*   enc.fn       the function called                                      *)
(*   enc.input    its text (for ascii_to_b45, the one byte)                *)
(*   enc.before   the stream before the call                               *)
(*   enc.qrdata   the Data the call works on                               *)
(*   enc.build    whether the build checks integer overflow                *)
(*   enc.pc       "call" before, then "returned" or "panicked"             *)
(*   enc.result   what ascii_to_b45 returned                               *)
(***************************************************************************)
VARIABLE enc

\* the longest text tried
MaxLen == 3

\* the bytes the texts are made of: 0 5 9 A space : (valid in some mode) and
\* a ; ! (valid in neither)
TextBytes == {48, 53, 57, 65, 32, 58, 97, 59, 33}

\* the versions around the two steps of the character count width
TextVersions == {9, 10, 26, 27}

Texts == UNION {[1..n -> TextBytes] : n \in 0..MaxLen}

EncInit ==
    \/ \E c \in 0..255 :
          enc = [fn |-> "ascii_to_b45", input |-> <<c>>, pc |-> "call",
                 build |-> "release", before |-> <<>>,
                 qrdata |-> [value |-> <<>>, version |-> 1], result |-> <<>>]
    \/ \E input \in Texts, version \in TextVersions,
          build \in {"debug", "release"}, before \in {<<>>, <<0, 1>>} :
          enc = [fn |-> "encode_numeric", input |-> input, pc |-> "call",
                 build |-> build, before |-> before,
                 qrdata |-> [value |-> before, version |-> version],
                 result |-> <<>>]
    \* no arithmetic of encode_alphanumeric overflows on these bytes, so one
    \* build stands for both
    \/ \E input \in Texts, version \in TextVersions,
          before \in {<<>>, <<0, 1>>} :
          enc = [fn |-> "encode_alphanumeric", input |-> input, pc |-> "call",
                 build |-> "release", before |-> before,
                 qrdata |-> [value |-> before, version |-> version],
                 result |-> <<>>]

\* a call of ascii_to_b45 that returns
AsciiToB45Returns ==
    /\ enc.fn = "ascii_to_b45" /\ enc.pc = "call"
    /\ ascii_to_b45(enc.input[1]) # <<>>
    /\ enc' = [enc EXCEPT !.pc = "returned",
                          !.result = ascii_to_b45(enc.input[1])]

\* a call of ascii_to_b45 that reaches unreachable!
AsciiToB45Panics ==
    /\ enc.fn = "ascii_to_b45" /\ enc.pc = "call"
    /\ ascii_to_b45(enc.input[1]) = <<>>
    /\ enc' = [enc EXCEPT !.pc = "panicked"]

\* a call of encode_numeric, to its return or its panic
EncodeNumeric ==
    /\ enc.fn = "encode_numeric" /\ enc.pc = "call"
    /\ LET r == encode_numeric(enc.qrdata, enc.input, enc.build) IN
       enc' = [enc EXCEPT !.qrdata.value = r.value, !.pc = r.outcome]

\* a call of encode_alphanumeric, to its return or its panic
EncodeAlphanumeric ==
    /\ enc.fn = "encode_alphanumeric" /\ enc.pc = "call"
    /\ LET r == encode_alphanumeric(enc.qrdata, enc.input) IN
       enc' = [enc EXCEPT !.qrdata.value = r.value, !.pc = r.outcome]

(***************************************************************************)
(* matrix.rs: the modules and the grid.                                    *)
(***************************************************************************)
\* enum Module, each variant as its discriminant (module as u8)
DataOFF == 0
DataON == 1
FinderOFF == 2
FinderON == 3
AlignmentOFF == 4
AlignmentON == 5
TimingOFF == 6
TimingON == 7
FormatOFF == 8
FormatON == 9
VersionOFF == 10
VersionON == 11
Separator == 12
Unset == 13

\* Option<Mask>
None == <<>>
Some(mask) == <<mask>>

\* The Vec value of a Matrix is a sequence: value[i] of the code is
\* value[i + 1] here.

\* Matrix::set
Set(matrix, x, y, module) ==
    [matrix EXCEPT !.value[x * matrix.width + y + 1] = module]

\* Matrix::get
Get(matrix, x, y) == matrix.value[x * matrix.width + y + 1]

\* A run of matrix.set(x, y, module) calls, writes[lo] first, writes[hi]
\* last.  (The test on matrix.width, which is never 0, makes the evaluation build the
\* grid of the calls before lo ahead of the calls from lo on.)
RECURSIVE SetAll(_, _, _, _)
SetAll(matrix, writes, lo, hi) ==
    IF lo > hi \/ matrix.width = 0 THEN matrix
    ELSE IF lo = hi
    THEN Set(matrix, writes[lo][1], writes[lo][2], writes[lo][3])
    ELSE LET mid == (lo + hi) \div 2
         IN  SetAll(SetAll(matrix, writes, lo, mid), writes, mid + 1, hi)

SetSeq(matrix, writes) == SetAll(matrix, writes, 1, Len(writes))

\* vec![x; n]
RECURSIVE Repeat(_, _)
Repeat(x, n) ==
    IF n = 0 THEN <<>>
    ELSE IF n % 2 = 1 THEN <<x>> \o Repeat(x, n - 1)
    ELSE LET half == Repeat(x, n \div 2) IN half \o half

\* the Matrix literal of Matrix::new
NewMatrix(codewords, mask) ==
    LET width == codewords.version * 4 + 17 IN
    [width |-> width,
     value |-> Repeat(Unset, width * width),
     version |-> codewords.version,
     ecl |-> codewords.ecl,
     mask |-> IF mask # None THEN mask[1] ELSE 0]

\* place_finder::place_pattern, as the calls of set it makes, in order
place_pattern(col, row) ==
    LET edge(r) == [i \in 1..7 |-> <<col + (i - 1), r, FinderON>>]
        ring(r) == <<     <<col + 0, r, FinderON>> >>
                   \o [i \in 1..5 |-> <<col + i, r, FinderOFF>>]
                   \o <<  <<col + 6, r, FinderON>> >>
        core(r) == << <<col + 0, r, FinderON>>, <<col + 1, r, FinderOFF>>,
                      <<col + 2, r, FinderON>>, <<col + 3, r, FinderON>>,
                      <<col + 4, r, FinderON>>, <<col + 5, r, FinderOFF>>,
                      <<col + 6, r, FinderON>> >>
    IN  edge(row) \o ring(row + 1)
        \o core(row + 2) \o core(row + 3) \o core(row + 4)
        \o ring(row + 5) \o edge(row + 6)

\* fn place_finder
place_finder(matrix) ==
    LET width == matrix.width IN
    SetSeq(matrix,
        place_pattern(0, 0)
        \o [i \in 1..8 |-> <<i - 1, 7, Separator>>]
        \o [i \in 1..7 |-> <<7, i - 1, Separator>>]
        \o place_pattern(0, width - 7)
        \o [i \in 1..8 |-> <<i - 1, width - 8, Separator>>]
        \o [i \in 1..7 |-> <<7, width - 1 - (i - 1), Separator>>]
        \o place_pattern(width - 7, 0)
        \o [i \in 1..8 |-> <<width - 1 - (i - 1), 7, Separator>>]
        \o [i \in 1..7 |-> <<width - 8, i - 1, Separator>>])

\* place_format: the two calls of set of pass i of its for loop
FormatWrites(matrix, i) ==
    LET format_info == FORMAT_INFO[matrix.ecl][matrix.mask]
        module == IF Shr(format_info, i) % 2 = 1 THEN FormatON ELSE FormatOFF
        y1 == IF i < 6 THEN i ELSE IF i = 6 THEN 7 ELSE 8
        x1 == IF i < 8 THEN 8 ELSE IF i = 8 THEN 7 ELSE 14 - i
        y2 == IF i < 8 THEN 8 ELSE matrix.width - (15 - i)
        x2 == IF i < 8 THEN matrix.width - (i + 1) ELSE 8
    IN  << <<x1, y1, module>>, <<x2, y2, module>> >>

\* the concatenation of part(lo), ..., part(hi)
RECURSIVE Concat(_, _, _)
Concat(part(_), lo, hi) ==
    IF lo > hi THEN <<>>
    ELSE IF lo = hi THEN part(lo)
    ELSE LET mid == (lo + hi) \div 2
         IN  Concat(part, lo, mid) \o Concat(part, mid + 1, hi)

\* fn place_format
place_format(matrix) ==
    LET part(i) == FormatWrites(matrix, i) IN
    SetSeq(matrix,
        Concat(part, 0, 14) \o << <<8, matrix.width - 8, FormatON>> >>)

\* fn place_version
place_version(matrix) ==
    IF matrix.version < 7 THEN matrix
    ELSE
        LET info_ == VERSION_INFO[matrix.version]
            module(i) == IF Shr(info_, i) % 2 = 1 THEN VersionON ELSE VersionOFF
            part(i) == << <<i \div 3, (i % 3) + matrix.width - 11, module(i)>>,
                          <<(i % 3) + matrix.width - 11, i \div 3, module(i)>> >>
        IN  SetSeq(matrix, Concat(part, 0, 17))

\* place_timing with belts one module short
place_timingMut(matrix) ==
    LET len == matrix.width - 17
        module(i) == IF i % 2 = 0 THEN TimingON ELSE TimingOFF
        part(i) == << <<8 + i, 6, module(i)>>, <<6, 8 + i, module(i)>> >>
    IN  SetSeq(matrix, Concat(part, 0, len - 1))
\* fn place_timing
place_timing(matrix) ==
    LET len == matrix.width - 16
        module(i) == IF i % 2 = 0 THEN TimingON ELSE TimingOFF
        part(i) == << <<8 + i, 6, module(i)>>, <<6, 8 + i, module(i)>> >>
    IN  SetSeq(matrix, Concat(part, 0, len - 1))

\* const ALIGN_COORDS, ALIGN_COORDS[k] at index k + 1
ALIGN_COORDS ==
    << 16, 18, 20, 22, 24, 26, 28,
       20, 22, 24, 24, 26, 28, 28,
       22, 24, 24, 26, 26, 28, 28,
       24, 24, 26, 26, 26, 28, 28,
       24, 26, 26, 26, 28, 28 >>

\* place_alignment: coords, coords[k] at index k + 1
AlignmentCoords(matrix) ==
    LET version == matrix.version
        first == 6
        last == matrix.width - 7
        len == (version \div 7) + 2
    IN  <<first>>
        \o (IF version >= 7
            THEN [k \in 1..(len - 2) |->
                    last - (len - 1 - k) * ALIGN_COORDS[version - 7 + 1]]
            ELSE <<>>)
        \o <<last>>

\* place_alignment: the calls of set for the pattern of passes i, j
AlignmentPattern(col, row) ==
    LET side(c) == [k \in 1..5 |-> <<c, row + (k - 1), AlignmentON>>]
        mid(i) == << <<col + i, row, AlignmentON>>,
                     <<col + i, row + 1, AlignmentOFF>>,
                     <<col + i, row + 2, AlignmentOFF>>,
                     <<col + i, row + 3, AlignmentOFF>>,
                     <<col + i, row + 4, AlignmentON>> >>
    IN  side(col) \o mid(1) \o mid(2) \o mid(3)
        \o << <<col + 2, row + 2, AlignmentON>> >>
        \o side(col + 4)

\* fn place_alignment
place_alignment(matrix) ==
    IF matrix.version = 1 THEN matrix
    ELSE
        LET len == (matrix.version \div 7) + 2
            coords == AlignmentCoords(matrix)
            part(p) ==
                LET i == p \div len
                    j == p % len
                IN  IF (i = 0 /\ (j = 0 \/ j = len - 1)) \/ (i = len - 1 /\ j = 0)
                    THEN <<>>
                    ELSE AlignmentPattern(coords[i + 1] - 2, coords[j + 1] - 2)
        IN  SetSeq(matrix, Concat(part, 0, len * len - 1))

(***************************************************************************)
(* place_data.  Its position is the record                                 *)
(*   [matrix, i, col, row, at]                                             *)
(* with at = "up" in the first inner loop, "down" in the second, "end"     *)
(* after the break of the outer loop and "panicked" after the index        *)
(* qrcode.value[*i / 8] was out of range.  col and row are integers here,  *)
(* so that a decrement of 0 shows as a negative value.                     *)
(***************************************************************************)
\* place_module reading a 0 bit where the codewords have run out
place_moduleMut(st, qrcode, col, row) ==
    IF st.at = "panicked" THEN st
    ELSE IF Get(st.matrix, col, row) = Unset THEN
        LET module ==
                IF st.i \div 8 < Len(qrcode.value)
                    /\ Shr(qrcode.value[(st.i \div 8) + 1], 7 - (st.i % 8)) % 2 = 1
                THEN DataON
                ELSE DataOFF
        IN  [st EXCEPT !.i = st.i + 1, !.matrix = Set(st.matrix, col, row, module)]
    ELSE st
\* place_data::place_module
place_module(st, qrcode, col, row) ==
    IF st.at = "panicked" THEN st
    ELSE IF Get(st.matrix, col, row) = Unset THEN
        IF st.i \div 8 >= Len(qrcode.value) THEN [st EXCEPT !.at = "panicked"]
        ELSE
            LET module ==
                    IF Shr(qrcode.value[(st.i \div 8) + 1], 7 - (st.i % 8)) % 2 = 1
                    THEN DataON
                    ELSE DataOFF
            IN  [st EXCEPT !.i = st.i + 1, !.matrix = Set(st.matrix, col, row, module)]
    ELSE st

\* the two calls of place_module of one pass of an inner loop
PlacePair(st, qrcode) ==
    place_module(place_module(st, qrcode, st.col, st.row),
                 qrcode, st.col - 1, st.row)

\* col -= 2 without the step over column 6
NextColumnMut(col) == col - 2
\* col -= 2, and the step over column 6 that follows the first inner loop
NextColumn(col) == IF col - 2 = 6 THEN col - 2 - 1 ELSE col - 2

\* place_data, at its first pass
DataStart(matrix) ==
    [matrix |-> matrix, i |-> 0, col |-> matrix.width - 1,
     row |-> matrix.width - 1, at |-> "up"]

\* one pass of the first inner loop: the upward strip
DataUp(st, qrcode) ==
    LET p == PlacePair(st, qrcode) IN
    IF p.at = "panicked" THEN p
    ELSE IF p.row = 0 THEN [p EXCEPT !.col = NextColumn(p.col), !.at = "down"]
    ELSE [p EXCEPT !.row = p.row - 1]

\* one pass of the second inner loop: the downward strip
DataDown(st, qrcode) ==
    LET p == PlacePair(st, qrcode) IN
    IF p.at = "panicked" THEN p
    ELSE IF p.row = p.matrix.width - 1
    THEN IF p.col = 1 THEN [p EXCEPT !.at = "end"]
         ELSE [p EXCEPT !.col = p.col - 2, !.at = "up"]
    ELSE [p EXCEPT !.row = p.row + 1]

\* one pass of whichever inner loop place_data is in
DataStep(st, qrcode) ==
    IF st.at = "up" THEN DataUp(st, qrcode) ELSE DataDown(st, qrcode)

\* the next n passes of the inner loops from st on, or those up to the end
\* of place_data (or its panic) when that comes first
RECURSIVE DataRun(_, _, _)
DataRun(st, qrcode, n) ==
    IF st.at \in {"end", "panicked"} \/ n = 0 THEN st
    ELSE IF n = 1 THEN DataStep(st, qrcode)
    ELSE DataRun(DataRun(st, qrcode, n \div 2), qrcode, n - (n \div 2))

\* fn place_data; width * width is more than the passes of its loops
place_data(matrix, qrcode) ==
    DataRun(DataStart(matrix), qrcode, matrix.width * matrix.width)

(***************************************************************************)
(* apply_mask and score.                                                   *)
(***************************************************************************)
\* the closure apply_mask picks by matrix.mask, applied to (row, col)
mask_bit(mask, row, col) ==
    CASE mask = 0 -> (row + col) % 2 = 0
      [] mask = 1 -> row % 2 = 0
      [] mask = 2 -> col % 3 = 0
      [] mask = 3 -> (row + col) % 3 = 0
      [] mask = 4 -> ((row \div 2) + (col \div 3)) % 2 = 0
      [] mask = 5 -> ((row * col) % 2) + ((row * col) % 3) = 0
      [] mask = 6 -> (((row * col) % 2) + ((row * col) % 3)) % 2 = 0
      [] mask = 7 -> (((row + col) % 2) + ((row * col) % 3)) % 2 = 0

\* apply_mask: pass (i, j) of its loops
MaskModule(matrix, i, j) ==
    LET module == Get(matrix, i, j) IN
    IF BitOr(module, 1) # DataON THEN matrix
    ELSE Set(matrix, i, j,
             IF Xor(module, IF mask_bit(matrix.mask, i, j) THEN 1 ELSE 0) = 1
             THEN DataON
             ELSE DataOFF)

\* apply_mask: the passes lo..hi of its loops, pass k being that of
\* i = k \div width and j = k % width
RECURSIVE MaskModules(_, _, _)
MaskModules(matrix, lo, hi) ==
    IF lo > hi \/ matrix.width = 0 THEN matrix
    ELSE IF lo = hi
    THEN MaskModule(matrix, lo \div matrix.width, lo % matrix.width)
    ELSE LET mid == (lo + hi) \div 2
         IN  MaskModules(MaskModules(matrix, lo, mid), mid + 1, hi)

\* fn apply_mask
apply_mask(matrix) ==
    MaskModules(matrix, 0, matrix.width * matrix.width - 1)

\* score::dark_proportion
dark_proportion(matrix) ==
    LET dark == Cardinality({k \in 1..Len(matrix.value) : matrix.value[k] = DataON})
        percent == (dark * 20) \div (20 * matrix.width * matrix.width)
        middle == 50
        hi == IF percent < middle THEN middle ELSE percent
        lo == IF percent < middle THEN percent ELSE middle
        k == (hi - lo) \div 5
    IN  10 * k

\* score::blocks
blocks(matrix) ==
    LET same(i, j) ==
            LET curr == Get(matrix, i, j) % 2
                tr == Get(matrix, i + 1, j) % 2
                bl == Get(matrix, i, j + 1) % 2
                br == Get(matrix, i + 1, j + 1) % 2
            IN  curr = tr /\ curr = bl /\ curr = br
    IN  3 * Cardinality({c \in (0..(matrix.width - 2)) \X (0..(matrix.width - 2)) :
                            same(c[1], c[2])})

\* score::line_patterns: pattern_1 and pattern_2, pattern[k] at index k + 1
pattern_1 == <<0, 0, 0, 0, 1, 0, 1, 1, 1, 0, 1>>
pattern_2 == <<1, 0, 1, 1, 1, 0, 1, 0, 0, 0, 0>>

\* score::line_patterns: the locals of line i before its inner loop, with the
\* score counted from the start of the line
LineStart(matrix, i, i_mult) ==
    LET streak_v == matrix.value[i * i_mult + 0 + 1] % 2 IN
    [score |-> 0, streak |-> 1, streak_v |-> streak_v,
     finder_i |-> IF streak_v = pattern_1[1] THEN 1 ELSE 0,
     finder_j |-> IF streak_v = pattern_2[1] THEN 1 ELSE 0]

\* score::line_patterns: pass j of the inner loop of line i, curr being
\* the colour of its module
LineStep(curr, l) ==
    LET streak == IF curr = l.streak_v THEN l.streak + 1 ELSE 0
        s1 == IF curr = l.streak_v
              THEN IF streak = 5 THEN 3 ELSE IF streak > 5 THEN 1 ELSE 0
              ELSE 0
        hit_i == curr = pattern_1[l.finder_i + 1]
        hit_j == curr = pattern_2[l.finder_j + 1]
        full_i == hit_i /\ l.finder_i + 1 = Len(pattern_1)
        full_j == hit_j /\ l.finder_j + 1 = Len(pattern_2)
    IN  [score |-> l.score + s1 + (IF full_i THEN 40 ELSE 0)
                           + (IF full_j THEN 40 ELSE 0),
         streak |-> streak,
         streak_v |-> curr,
         finder_i |-> IF hit_i /\ ~full_i THEN l.finder_i + 1 ELSE 0,
         finder_j |-> IF hit_j /\ ~full_j THEN l.finder_j + 1 ELSE 0]

\* score::line_patterns: the inner loop of line i from pass j on
RECURSIVE LineScan(_, _, _, _, _, _)
LineScan(matrix, i, j, i_mult, j_mult, l) ==
    IF j >= matrix.width THEN l.score
    ELSE LET curr == matrix.value[i * i_mult + j * j_mult + 1] % 2 IN
         IF curr = l.streak_v
         THEN LineScan(matrix, i, j + 1, i_mult, j_mult, LineStep(curr, l))
         ELSE LineScan(matrix, i, j + 1, i_mult, j_mult, LineStep(curr, l))

\* score::line_patterns: what the lines lo..hi add to the score
RECURSIVE LinesScore(_, _, _, _, _)
LinesScore(matrix, lo, hi, i_mult, j_mult) ==
    IF lo > hi THEN 0
    ELSE IF lo = hi
    THEN LineScan(matrix, lo, 1, i_mult, j_mult, LineStart(matrix, lo, i_mult))
    ELSE LET mid == (lo + hi) \div 2
         IN  LinesScore(matrix, lo, mid, i_mult, j_mult)
             + LinesScore(matrix, mid + 1, hi, i_mult, j_mult)

\* score::line_patterns
line_patterns(matrix, col) ==
    LET i_mult == IF col THEN matrix.width ELSE 1
        j_mult == IF col THEN 1 ELSE matrix.width
    IN  LinesScore(matrix, 0, matrix.width - 1, i_mult, j_mult)

\* fn score
score(matrix) ==
    dark_proportion(matrix)
    + blocks(matrix)
    + line_patterns(matrix, TRUE)
    + line_patterns(matrix, FALSE)

\* fn place_all up to the call of place_data
BeforeData(matrix) ==
    place_alignment(place_version(place_timing(place_format(place_finder(matrix)))))

\* fn place_all; <<>> when place_data panics
place_all(matrix, codewords) ==
    LET d == place_data(BeforeData(matrix), codewords) IN
    IF d.at = "panicked" THEN <<>> ELSE <<apply_mask(d.matrix)>>

\* a pass of the for loop that does not undo the previous mask
TryCandidateMut(matrix, m) ==
    place_format(apply_mask([matrix EXCEPT !.mask = m]))
\* Matrix::new, one pass of the for loop over M1..M7 up to the score
TryCandidate(matrix, m) ==
    place_format(apply_mask([apply_mask(matrix) EXCEPT !.mask = m]))

\* the test with > for <
BetterMut(score_, min_score_) == score_ > min_score_
\* Matrix::new, the test that makes a candidate the new minimum
Better(score_, min_score_) == score_ < min_score_

\* Matrix::new, the body of if min_mask != matrix.mask
CommitMask(matrix, min_mask_) ==
    place_format(apply_mask([apply_mask(matrix) EXCEPT !.mask = min_mask_]))

(***************************************************************************)
(* Calls of Matrix::new(codewords, mask).                                  *)
(*   codewords, mask   the arguments                                       *)
(*   matrix            the local matrix                                    *)
(*   min_score, min_mask, rest                                             *)
(*                     the locals of the mask selection; rest holds the    *)
(*                     candidates the for loop has still to try            *)
(*   pc                the statement to run next, "done" once the matrix   *)
(*                     is returned, "panicked" after a panic               *)
(***************************************************************************)
VARIABLES codewords, mask, matrix, min_score, min_mask, rest, pc

\* the codewords tried are seed 0..MaxSeed
MaxSeed == 2

\* the versions tried: the first, the first with an alignment pattern, the
\* first with version information
MatrixVersions == {1, 2, 7}

\* the masks a caller forces
ForcedMasks == {3, 6}

\* byte k (from 0) of the codewords of a seed
SeedByte(seed, k) == (seed * 85 + k * seed * 7) % 256

\* the cells place_data has to fill in a symbol of a version
FreeCells(version) ==
    LET m == BeforeData(NewMatrix([version |-> version, ecl |-> Low], None))
    IN  Cardinality({k \in 1..Len(m.value) : m.value[k] = Unset})

\* the lengths tried: one byte short of the free cells, just enough bytes
\* for them, and one byte more
CodewordLengths(version) ==
    LET need == (FreeCells(version) + 7) \div 8 IN {need - 1, need, need + 1}

\* struct Codewords
Codewords(version, ecl, seed, len) ==
    [value |-> [k \in 1..len |-> SeedByte(seed, k - 1)],
     version |-> version, ecl |-> ecl]

\* the error correction levels tried
MatrixECLs == {Low, Quartile}

MatrixInit ==
    \E version \in MatrixVersions :
       \E len \in CodewordLengths(version), ecl \in MatrixECLs,
          seed \in 0..MaxSeed,
          forced \in {None} \cup {Some(w) : w \in ForcedMasks} :
          /\ codewords = Codewords(version, ecl, seed, len)
          /\ mask = forced
          /\ matrix = NewMatrix(codewords, mask)
          /\ min_score = 0
          /\ min_mask = 0
          /\ rest = <<>>
          /\ pc = "place_finder"

matrixArgs == <<codewords, mask>>
selection == <<min_score, min_mask, rest>>

\* place_all: place_finder(matrix)
PlaceFinder ==
    /\ pc = "place_finder"
    /\ matrix' = place_finder(matrix)
    /\ pc' = "place_format"
    /\ UNCHANGED <<matrixArgs, selection>>

\* place_all: place_format(matrix)
PlaceFormat ==
    /\ pc = "place_format"
    /\ matrix' = place_format(matrix)
    /\ pc' = "place_timing"
    /\ UNCHANGED <<matrixArgs, selection>>

\* place_all: place_timing(matrix)
PlaceTiming ==
    /\ pc = "place_timing"
    /\ matrix' = place_timing(matrix)
    /\ pc' = "place_version"
    /\ UNCHANGED <<matrixArgs, selection>>

\* place_all: place_version(matrix)
PlaceVersion ==
    /\ pc = "place_version"
    /\ matrix' = place_version(matrix)
    /\ pc' = "place_alignment"
    /\ UNCHANGED <<matrixArgs, selection>>

\* place_all: place_alignment(matrix)
PlaceAlignment ==
    /\ pc = "place_alignment"
    /\ matrix' = place_alignment(matrix)
    /\ pc' = "place_data"
    /\ UNCHANGED <<matrixArgs, selection>>

\* place_all: place_data(matrix, codewords), when it returns
PlaceData ==
    /\ pc = "place_data"
    /\ LET d == place_data(matrix, codewords) IN
       /\ d.at = "end"
       /\ matrix' = d.matrix
    /\ pc' = "apply_mask"
    /\ UNCHANGED <<matrixArgs, selection>>

\* place_all: place_data(matrix, codewords), when it panics
PlaceDataPanics ==
    /\ pc = "place_data"
    /\ place_data(matrix, codewords).at = "panicked"
    /\ pc' = "panicked"
    /\ UNCHANGED <<matrix, matrixArgs, selection>>

\* place_all: apply_mask(matrix), and the return of place_all
ApplyMask ==
    /\ pc = "apply_mask"
    /\ matrix' = apply_mask(matrix)
    /\ pc' = "placed"
    /\ UNCHANGED <<matrixArgs, selection>>

\* Matrix::new with a forced mask: the if let None = mask is skipped
ReturnForced ==
    /\ pc = "placed"
    /\ mask # None
    /\ pc' = "done"
    /\ UNCHANGED <<matrix, matrixArgs, selection>>

\* Matrix::new: min_score = score(&matrix); min_mask = matrix.mask
ScoreFirst ==
    /\ pc = "placed"
    /\ mask = None
    /\ min_score' = score(matrix)
    /\ min_mask' = matrix.mask
    /\ rest' = <<1, 2, 3, 4, 5, 6, 7>>
    /\ pc' = "for"
    /\ UNCHANGED <<matrix, matrixArgs>>

\* Matrix::new: one pass of the for loop over M1..M7
TryMask ==
    /\ pc = "for"
    /\ rest # <<>>
    /\ matrix' = TryCandidate(matrix, Head(rest))
    /\ LET score_ == score(matrix') IN
       IF Better(score_, min_score)
       THEN min_score' = score_ /\ min_mask' = matrix'.mask
       ELSE UNCHANGED <<min_score, min_mask>>
    /\ rest' = Tail(rest)
    /\ UNCHANGED <<pc, matrixArgs>>

\* Matrix::new: after the loop, min_mask != matrix.mask
CommitWinner ==
    /\ pc = "for"
    /\ rest = <<>>
    /\ min_mask # matrix.mask
    /\ matrix' = CommitMask(matrix, min_mask)
    /\ pc' = "done"
    /\ UNCHANGED <<matrixArgs, selection>>

\* Matrix::new: after the loop, the last candidate is the minimum
KeepLast ==
    /\ pc = "for"
    /\ rest = <<>>
    /\ min_mask = matrix.mask
    /\ pc' = "done"
    /\ UNCHANGED <<matrix, matrixArgs, selection>>

(***************************************************************************)
(* A call of place_data, pass by pass of its inner loops.                  *)
(*   qrcode   the codewords                                                *)
(*   pd       the position of place_data (see DataStart), matrix included  *)
(*   entry    the grid place_data was called with                          *)
(*   path     the cells <<col, row>> place_module was called for, in the   *)
(*            order of the calls                                           *)
(***************************************************************************)
VARIABLES qrcode, pd, entry, path

\* the versions tried are 1..MaxDataVersion
MaxDataVersion == 2

DataInit ==
    \E version \in 1..MaxDataVersion :
       \E len \in CodewordLengths(version), ecl \in {Low, High},
          seed \in 0..MaxSeed :
          /\ qrcode = Codewords(version, ecl, seed, len)
          /\ entry = BeforeData(NewMatrix(qrcode, None))
          /\ pd = DataStart(entry)
          /\ path = <<>>

\* the two cells of the pass at pd
PassCells == << <<pd.col, pd.row>>, <<pd.col - 1, pd.row>> >>

\* a pass of the first inner loop that does not break
DataUpPass ==
    /\ pd.at = "up"
    /\ pd' = DataStep(pd, qrcode)
    /\ pd'.at = "up"
    /\ path' = path \o PassCells
    /\ UNCHANGED <<qrcode, entry>>

\* the pass of the first inner loop that breaks, and the col -= 2 after it
DataUpBreak ==
    /\ pd.at = "up"
    /\ pd' = DataStep(pd, qrcode)
    /\ pd'.at = "down"
    /\ path' = path \o PassCells
    /\ UNCHANGED <<qrcode, entry>>

\* a pass of the second inner loop that does not break
DataDownPass ==
    /\ pd.at = "down"
    /\ pd' = DataStep(pd, qrcode)
    /\ pd'.at = "down"
    /\ path' = path \o PassCells
    /\ UNCHANGED <<qrcode, entry>>

\* the pass of the second inner loop that breaks, and the col -= 2 after it
DataDownBreak ==
    /\ pd.at = "down"
    /\ pd' = DataStep(pd, qrcode)
    /\ pd'.at = "up"
    /\ path' = path \o PassCells
    /\ UNCHANGED <<qrcode, entry>>

\* the pass of the second inner loop that breaks with col == 1
DataReturn ==
    /\ pd.at = "down"
    /\ pd' = DataStep(pd, qrcode)
    /\ pd'.at = "end"
    /\ path' = path \o PassCells
    /\ UNCHANGED <<qrcode, entry>>

\* a pass in which qrcode.value[*i / 8] is out of range, in the first call
\* of place_module or in the second
DataPanics ==
    /\ pd.at \in {"up", "down"}
    /\ pd' = DataStep(pd, qrcode)
    /\ pd'.at = "panicked"
    /\ path' = IF place_module(pd, qrcode, pd.col, pd.row).at = "panicked"
               THEN Append(path, PassCells[1])
               ELSE path \o PassCells
    /\ UNCHANGED <<qrcode, entry>>

(***************************************************************************)
(* A call of apply_mask, pass by pass of its two for loops.                *)
(*   am.matrix   the grid                                                  *)
(*   am.before   the grid apply_mask was called with                       *)
(*   am.i, am.j  the loop variables                                        *)
(*   am.at       "loop" in the loops, "done" after them                    *)
(***************************************************************************)
VARIABLE am

\* the versions of the grids apply_mask is called with
MaskVersions == {1, 2}

\* place_all calls apply_mask on the grid place_data returns, with the
\* mask of the matrix
MaskInit ==
    \E version \in MaskVersions, seed \in 0..MaxSeed, m \in Masks :
        LET cw == Codewords(version, Low, seed,
                            (FreeCells(version) + 7) \div 8)
            grid == place_data(BeforeData(NewMatrix(cw, Some(m))), cw).matrix
        IN  am = [matrix |-> grid, before |-> grid, i |-> 0, j |-> 0,
                  at |-> "loop"]

\* for i in 0..matrix.width { for j in 0..matrix.width: the next (i, j)
MaskAdvance(a) ==
    IF a.j + 1 < a.matrix.width THEN [a EXCEPT !.j = a.j + 1]
    ELSE IF a.i + 1 < a.matrix.width THEN [a EXCEPT !.i = a.i + 1, !.j = 0]
    ELSE [a EXCEPT !.at = "done"]

\* a pass that ends at continue: the module is not DataOFF or DataON
MaskContinue ==
    /\ am.at = "loop"
    /\ BitOr(Get(am.matrix, am.i, am.j), 1) # DataON
    /\ am' = MaskAdvance(am)

\* a pass that sets the module
MaskSet ==
    /\ am.at = "loop"
    /\ BitOr(Get(am.matrix, am.i, am.j), 1) = DataON
    /\ am' = MaskAdvance([am EXCEPT !.matrix = MaskModule(am.matrix, am.i, am.j)])

(***************************************************************************)
(* Calls of score's inner functions on a grid Matrix::new scores.          *)
(*   sc.fn       "line_patterns" or "dark_proportion"                      *)
(*   sc.matrix   the grid                                                  *)
(* line_patterns runs statement by statement:                              *)
(*   sc.col, sc.i, sc.j, sc.score, sc.streak, sc.streak_v, sc.finder_i,    *)
(*   sc.finder_j                                                           *)
(*               its argument and its locals                               *)
(*   sc.at       "for_i" at the head of the outer loop; in a pass of the   *)
(*               inner loop "streak" before the if on curr == streak_v,    *)
(*               "finder_i" before the if on pattern_1, "finder_j" before  *)
(*               that on pattern_2; "done" after the return                *)
(*   sc.run_len  how many modules of the colour of module j - 1 end at     *)
(*               j - 1 in line i (read off the grid, not off streak)       *)
(*   sc.run_score                                                          *)
(*               what the if on curr == streak_v has added to score for    *)
(*               those modules                                             *)
(* dark_proportion runs as one step, sc.at going from "call" to            *)
(* "returned" and sc.result being what it returns.                         *)
(***************************************************************************)
VARIABLE sc

\* the masks of the grids scored
ScoredMasks == {0, 1}

\* the grids scored: those of version 1 after place_all and apply_mask
ScoredGrids ==
    {place_all(NewMatrix(Codewords(1, Low, seed, 26), Some(m)),
               Codewords(1, Low, seed, 26))[1] :
        seed \in 0..MaxSeed, m \in ScoredMasks}

ScoreInit ==
    \E grid \in ScoredGrids :
        \/ \E col \in BOOLEAN :
              sc = [fn |-> "line_patterns", matrix |-> grid, col |-> col,
                    i |-> 0, j |-> 0, score |-> 0, streak |-> 0,
                    streak_v |-> 0, finder_i |-> 0, finder_j |-> 0,
                    at |-> "for_i", run_len |-> 0, run_score |-> 0]
        \/ sc = [fn |-> "dark_proportion", matrix |-> grid, at |-> "call",
                 result |-> 0]

\* matrix.value[i * i_mult + j * j_mult] as u8 & 1
LineModule(s, i, j) ==
    LET i_mult == IF s.col THEN s.matrix.width ELSE 1
        j_mult == IF s.col THEN 1 ELSE s.matrix.width
    IN  s.matrix.value[i * i_mult + j * j_mult + 1] % 2

\* for i in 0..matrix.width { let mut streak = 1; ... finder_j = ..
LineBegin ==
    /\ sc.fn = "line_patterns" /\ sc.at = "for_i"
    /\ sc.i < sc.matrix.width
    /\ LET streak_v == LineModule(sc, sc.i, 0) IN
       sc' = [sc EXCEPT
                !.streak = 1, !.streak_v = streak_v,
                !.finder_i = IF streak_v = pattern_1[1] THEN 1 ELSE 0,
                !.finder_j = IF streak_v = pattern_2[1] THEN 1 ELSE 0,
                !.j = 1, !.at = "streak",
                !.run_len = 1, !.run_score = 0]

\* if curr == streak_v { streak += 1; if streak == 5 .. else if streak > 5 }
LineStreakGrows ==
    /\ sc.fn = "line_patterns" /\ sc.at = "streak"
    /\ LineModule(sc, sc.i, sc.j) = sc.streak_v
    /\ LET streak == sc.streak + 1
           added == IF streak = 5 THEN 3 ELSE IF streak > 5 THEN 1 ELSE 0
           same == LineModule(sc, sc.i, sc.j) = LineModule(sc, sc.i, sc.j - 1)
       IN  sc' = [sc EXCEPT
                    !.streak = streak, !.score = sc.score + added,
                    !.at = "finder_i",
                    !.run_len = IF same THEN sc.run_len + 1 ELSE 1,
                    !.run_score = IF same THEN sc.run_score + added ELSE added]

\* else { streak = 0; streak_v = curr; }
LineStreakResets ==
    /\ sc.fn = "line_patterns" /\ sc.at = "streak"
    /\ LineModule(sc, sc.i, sc.j) # sc.streak_v
    /\ LET same == LineModule(sc, sc.i, sc.j) = LineModule(sc, sc.i, sc.j - 1)
       IN  sc' = [sc EXCEPT
                    !.streak = 0, !.streak_v = LineModule(sc, sc.i, sc.j),
                    !.at = "finder_i",
                    !.run_len = IF same THEN sc.run_len + 1 ELSE 1,
                    !.run_score = IF same THEN sc.run_score ELSE 0]

\* if curr == pattern_1[finder_i] { .. } else { finder_i = 0 }
LineFinderI ==
    /\ sc.fn = "line_patterns" /\ sc.at = "finder_i"
    /\ LET hit == LineModule(sc, sc.i, sc.j) = pattern_1[sc.finder_i + 1]
           full == hit /\ sc.finder_i + 1 = Len(pattern_1)
       IN  sc' = [sc EXCEPT
                    !.finder_i = IF hit /\ ~full THEN sc.finder_i + 1 ELSE 0,
                    !.score = sc.score + (IF full THEN 40 ELSE 0),
                    !.at = "finder_j"]

\* if curr == pattern_2[finder_j] { .. } else { finder_j = 0 }, and the end
\* of the pass: the next j, or the next i after the last j
LineFinderJ ==
    /\ sc.fn = "line_patterns" /\ sc.at = "finder_j"
    /\ LET hit == LineModule(sc, sc.i, sc.j) = pattern_2[sc.finder_j + 1]
           full == hit /\ sc.finder_j + 1 = Len(pattern_2)
           last == sc.j + 1 >= sc.matrix.width
       IN  sc' = [sc EXCEPT
                    !.finder_j = IF hit /\ ~full THEN sc.finder_j + 1 ELSE 0,
                    !.score = sc.score + (IF full THEN 40 ELSE 0),
                    !.j = IF last THEN sc.j ELSE sc.j + 1,
                    !.i = IF last THEN sc.i + 1 ELSE sc.i,
                    !.at = IF last THEN "for_i" ELSE "streak"]

\* the outer loop ends: score is returned
LineReturn ==
    /\ sc.fn = "line_patterns" /\ sc.at = "for_i"
    /\ sc.i >= sc.matrix.width
    /\ sc' = [sc EXCEPT !.at = "done"]

\* a call of dark_proportion
DarkProportion ==
    /\ sc.fn = "dark_proportion" /\ sc.at = "call"
    /\ sc' = [sc EXCEPT !.at = "returned",
                        !.result = dark_proportion(sc.matrix)]

(***************************************************************************)
(* The specifications.  Each runs one part of the program and leaves the   *)
(* variables of the others at rest.                                        *)
(***************************************************************************)
vars ==
    <<info, enc, codewords, mask, matrix, min_score, min_mask, rest, pc,
      qrcode, pd, entry, path, am, sc>>
matrixVars == <<codewords, mask, matrix, min_score, min_mask, rest, pc>>
dataVars == <<qrcode, pd, entry, path>>
maskVars == <<am>>
scoreVars == <<sc>>

InfoIdle == info = [fn |-> "none", pc |-> "idle"]
EncIdle == enc = [fn |-> "none", pc |-> "idle"]
MatrixIdle ==
    /\ codewords = <<>> /\ mask = None /\ matrix = <<>>
    /\ min_score = 0 /\ min_mask = 0 /\ rest = <<>> /\ pc = "idle"
DataIdle ==
    /\ qrcode = <<>> /\ pd = [at |-> "idle"] /\ entry = <<>> /\ path = <<>>
MaskIdle == am = [at |-> "idle"]
ScoreIdle == sc = [fn |-> "none", at |-> "idle"]

\* the const tables
InitInfo == InfoInit /\ EncIdle /\ MatrixIdle /\ DataIdle /\ MaskIdle /\ ScoreIdle
NextInfo ==
    \/ VersionOuter /\ UNCHANGED <<enc, matrixVars, dataVars, maskVars, scoreVars>>
    \/ VersionDivide /\ UNCHANGED <<enc, matrixVars, dataVars, maskVars, scoreVars>>
    \/ VersionStore /\ UNCHANGED <<enc, matrixVars, dataVars, maskVars, scoreVars>>
    \/ VersionReturn /\ UNCHANGED <<enc, matrixVars, dataVars, maskVars, scoreVars>>
    \/ FormatOuter /\ UNCHANGED <<enc, matrixVars, dataVars, maskVars, scoreVars>>
    \/ FormatDivide /\ UNCHANGED <<enc, matrixVars, dataVars, maskVars, scoreVars>>
    \/ FormatStore /\ UNCHANGED <<enc, matrixVars, dataVars, maskVars, scoreVars>>
    \/ FormatNextEcl /\ UNCHANGED <<enc, matrixVars, dataVars, maskVars, scoreVars>>
    \/ FormatReturn /\ UNCHANGED <<enc, matrixVars, dataVars, maskVars, scoreVars>>
SpecInfo == InitInfo /\ [][NextInfo]_vars

\* the segment encoders
InitEncode == EncInit /\ InfoIdle /\ MatrixIdle /\ DataIdle /\ MaskIdle /\ ScoreIdle
NextEncode ==
    \/ AsciiToB45Returns /\ UNCHANGED <<info, matrixVars, dataVars, maskVars, scoreVars>>
    \/ AsciiToB45Panics /\ UNCHANGED <<info, matrixVars, dataVars, maskVars, scoreVars>>
    \/ EncodeNumeric /\ UNCHANGED <<info, matrixVars, dataVars, maskVars, scoreVars>>
    \/ EncodeAlphanumeric /\ UNCHANGED <<info, matrixVars, dataVars, maskVars, scoreVars>>
SpecEncode == InitEncode /\ [][NextEncode]_vars

\* place_data
InitData == DataInit /\ InfoIdle /\ EncIdle /\ MatrixIdle /\ MaskIdle /\ ScoreIdle
NextData ==
    \/ DataUpPass /\ UNCHANGED <<info, enc, matrixVars, maskVars, scoreVars>>
    \/ DataUpBreak /\ UNCHANGED <<info, enc, matrixVars, maskVars, scoreVars>>
    \/ DataDownPass /\ UNCHANGED <<info, enc, matrixVars, maskVars, scoreVars>>
    \/ DataDownBreak /\ UNCHANGED <<info, enc, matrixVars, maskVars, scoreVars>>
    \/ DataReturn /\ UNCHANGED <<info, enc, matrixVars, maskVars, scoreVars>>
    \/ DataPanics /\ UNCHANGED <<info, enc, matrixVars, maskVars, scoreVars>>
SpecData == InitData /\ [][NextData]_vars

\* apply_mask
InitMask == MaskInit /\ InfoIdle /\ EncIdle /\ MatrixIdle /\ DataIdle /\ ScoreIdle
NextMask ==
    \/ MaskContinue /\ UNCHANGED <<info, enc, matrixVars, dataVars, scoreVars>>
    \/ MaskSet /\ UNCHANGED <<info, enc, matrixVars, dataVars, scoreVars>>
SpecMask == InitMask /\ [][NextMask]_vars

\* score's line_patterns and dark_proportion
InitScore ==
    ScoreInit /\ InfoIdle /\ EncIdle /\ MatrixIdle /\ DataIdle /\ MaskIdle
NextScore ==
    \/ LineBegin /\ UNCHANGED <<info, enc, matrixVars, dataVars, maskVars>>
    \/ LineStreakGrows /\ UNCHANGED <<info, enc, matrixVars, dataVars, maskVars>>
    \/ LineStreakResets /\ UNCHANGED <<info, enc, matrixVars, dataVars, maskVars>>
    \/ LineFinderI /\ UNCHANGED <<info, enc, matrixVars, dataVars, maskVars>>
    \/ LineFinderJ /\ UNCHANGED <<info, enc, matrixVars, dataVars, maskVars>>
    \/ LineReturn /\ UNCHANGED <<info, enc, matrixVars, dataVars, maskVars>>
    \/ DarkProportion /\ UNCHANGED <<info, enc, matrixVars, dataVars, maskVars>>
SpecScore == InitScore /\ [][NextScore]_vars

\* Matrix::new
Init == MatrixInit /\ InfoIdle /\ EncIdle /\ DataIdle /\ MaskIdle /\ ScoreIdle
Next ==
    \/ PlaceFinder /\ UNCHANGED <<info, enc, dataVars, maskVars, scoreVars>>
    \/ PlaceFormat /\ UNCHANGED <<info, enc, dataVars, maskVars, scoreVars>>
    \/ PlaceTiming /\ UNCHANGED <<info, enc, dataVars, maskVars, scoreVars>>
    \/ PlaceVersion /\ UNCHANGED <<info, enc, dataVars, maskVars, scoreVars>>
    \/ PlaceAlignment /\ UNCHANGED <<info, enc, dataVars, maskVars, scoreVars>>
    \/ PlaceData /\ UNCHANGED <<info, enc, dataVars, maskVars, scoreVars>>
    \/ PlaceDataPanics /\ UNCHANGED <<info, enc, dataVars, maskVars, scoreVars>>
    \/ ApplyMask /\ UNCHANGED <<info, enc, dataVars, maskVars, scoreVars>>
    \/ ReturnForced /\ UNCHANGED <<info, enc, dataVars, maskVars, scoreVars>>
    \/ ScoreFirst /\ UNCHANGED <<info, enc, dataVars, maskVars, scoreVars>>
    \/ TryMask /\ UNCHANGED <<info, enc, dataVars, maskVars, scoreVars>>
    \/ CommitWinner /\ UNCHANGED <<info, enc, dataVars, maskVars, scoreVars>>
    \/ KeepLast /\ UNCHANGED <<info, enc, dataVars, maskVars, scoreVars>>
Spec == Init /\ [][Next]_vars

(***************************************************************************)
(* Properties of the const tables (SpecInfo).                              *)
(***************************************************************************)
\* the product of the polynomials q and g over GF(2)
RECURSIVE ClMul(_, _)
ClMul(q, g) ==
    IF q = 0 THEN 0
    ELSE Xor(IF q % 2 = 1 THEN g ELSE 0, 2 * ClMul(q \div 2, g))

VersionTableDone == info.fn = "version_info" /\ info.pc = "done"
FormatTableDone == info.fn = "format_info" /\ info.pc = "done"

\* C4: for every version v in 1..40 the entry VERSION_INFO[v] that
\* version_info returns has v as its top 6 bits (bits 12..17 of 18), has as
\* its low 12 bits the GF(2) remainder of v << 12 by 0b1_1111_0010_0101 (so
\* the whole entry is a GF(2) multiple of the generator), and the entries of
\* 7, 21 and 40 are 0x07C94, 0x15683 and 0x28C69; the const VERSION_INFO is
\* that array.
C4_VersionInfo ==
    VersionTableDone =>
        /\ \A v \in 1..40 :
              LET e == info.array[v] IN
                /\ e < 262144
                /\ e \div 4096 = v
                /\ \E q \in 0..63 : ClMul(q, 7973) = e
                /\ e = BitOr(v * 4096, e % 4096)
        /\ info.array[7] = 31892
        /\ info.array[21] = 87683
        /\ info.array[40] = 167017
        /\ info.array = VERSION_INFO

\* C4 witness: version_info has returned, with the entry of version 40 stored
C4_Witness == VersionTableDone /\ info.version = 41 /\ info.array[40] # 0

\* the index the format bits carry for an error correction level
EclIndex(e) ==
    CASE e = Low -> 1 [] e = Medium -> 0 [] e = Quartile -> 3 [] e = High -> 2

\* C5: for every ECL and every m in 0..7 the entry FORMAT_INFO[ECL][m] that
\* format_info returns, XORed with 0b101010000010010, has d = ecl_index << 3
\* | m as its top 5 bits and the GF(2) remainder of d << 10 by 0b101_0011_0111
\* as its low 10 bits; no entry is zero, the 32 entries are pairwise distinct,
\* and (Medium, 0), (High, 0), (High, 7) are 0x5412, 0x1689, 0x083B; the
\* const FORMAT_INFO is that array.
C5_FormatInfo ==
    FormatTableDone =>
        /\ \A e \in ECLs, m \in 0..7 :
              LET u == Xor(info.array[e][m], 21522) IN
                /\ u < 32768
                /\ u \div 1024 = EclIndex(e) * 8 + m
                /\ \E q \in 0..31 : ClMul(q, 1335) = u
                /\ info.array[e][m] # 0
        /\ \A e1 \in ECLs, e2 \in ECLs, m1 \in 0..7, m2 \in 0..7 :
              info.array[e1][m1] = info.array[e2][m2] => e1 = e2 /\ m1 = m2
        /\ info.array[Medium][0] = 21522
        /\ info.array[High][0] = 5769
        /\ info.array[High][7] = 2107
        /\ info.array = FORMAT_INFO

\* C5 witness: format_info has returned, with the last entry stored
C5_Witness == FormatTableDone /\ info.i = 4 /\ info.array[High][7] # 0

(***************************************************************************)
(* Properties of the segment encoders (SpecEncode).                        *)
(***************************************************************************)
\* the number a sequence of bits spells, most significant bit first
RECURSIVE BitsValue(_)
BitsValue(bits) ==
    IF bits = <<>> THEN 0
    ELSE 2 * BitsValue(SubSeq(bits, 1, Len(bits) - 1)) + bits[Len(bits)]

\* the 45 alphanumeric characters in the order of their values 0..44:
\* 0-9, A-Z, space $ % * + - . / :
Alphabet45 ==
    [k \in 1..10 |-> 47 + k] \o [k \in 1..26 |-> 64 + k]
        \o <<32, 36, 37, 42, 43, 45, 46, 47, 58>>

ValidAlphanumeric == {Alphabet45[k] : k \in 1..45}
ValidNumeric == 48..57

IsText(s, valid) == \A k \in 1..Len(s) : s[k] \in valid

\* the stream a call appended to the one it found
Appended ==
    SubSeq(enc.qrdata.value, Len(enc.before) + 1, Len(enc.qrdata.value))

\* the bits of an appended stream after the mode indicator and the count
Payload(width) == SubSeq(Appended, 4 + width + 1, Len(Appended))

\* the width of the character count of a version: numeric 10, 12, 14 and
\* alphanumeric 9, 11, 13 for versions 1..9, 10..26, 27..40
CountWidth(version, numeric) ==
    (IF numeric THEN 10 ELSE 9)
        + (IF version >= 10 THEN 2 ELSE 0) + (IF version >= 27 THEN 2 ELSE 0)

\* the k-th digit (k from 1) that the numeric payload of an n-digit text
\* decodes to: 3 digits of each 10-bit group, then 2 of a 7-bit or 1 of a
\* 4-bit group
DecodedDigit(payload, n, k) ==
    LET g == (k - 1) \div 3
        digits == IF g < n \div 3 THEN 3 ELSE n % 3
        width == CASE digits = 3 -> 10 [] digits = 2 -> 7 [] digits = 1 -> 4
        v == BitsValue(SubSeq(payload, 10 * g + 1, 10 * g + width))
        place == digits - 1 - ((k - 1) % 3)
    IN  48 + ((v \div (IF place = 2 THEN 100 ELSE IF place = 1 THEN 10 ELSE 1))
                % 10)

\* the k-th character (k from 1) that the alphanumeric payload of an
\* n-character text decodes to, through the inverse mapping Alphabet45
DecodedChar(payload, n, k) ==
    LET g == (k - 1) \div 2
        paired == g < n \div 2
        v == BitsValue(SubSeq(payload, 11 * g + 1,
                              11 * g + (IF paired THEN 11 ELSE 6)))
    IN  IF ~paired THEN Alphabet45[v + 1]
        ELSE IF (k - 1) % 2 = 0 THEN Alphabet45[(v \div 45) + 1]
        ELSE Alphabet45[(v % 45) + 1]

NumericCalled == enc.fn = "encode_numeric" /\ enc.pc # "call"
AlphanumericCalled == enc.fn = "encode_alphanumeric" /\ enc.pc # "call"

C7_AlphanumericRoundTrip ==
    /\ (enc.fn = "ascii_to_b45" /\ enc.pc # "call"
            /\ enc.input[1] \in ValidAlphanumeric) =>
          /\ enc.pc = "returned"
          /\ enc.result[1] \in 0..44
          /\ Alphabet45[enc.result[1] + 1] = enc.input[1]
          /\ \A c \in ValidAlphanumeric :
                ascii_to_b45(c) = enc.result => c = enc.input[1]
          /\ enc.input[1] \in 48..57 => enc.result[1] = enc.input[1] - 48
          /\ enc.input[1] \in 65..90 => enc.result[1] = enc.input[1] - 55
          /\ enc.input[1] \notin 48..90 \/ enc.input[1] = 58 =>
                enc.result[1] \in 36..44
    /\ (AlphanumericCalled /\ IsText(enc.input, ValidAlphanumeric)) =>
          LET n == Len(enc.input)
              width == CountWidth(enc.qrdata.version, FALSE)
          IN  /\ enc.pc = "returned"
              /\ SubSeq(enc.qrdata.value, 1, Len(enc.before)) = enc.before
              /\ SubSeq(Appended, 1, 4) = <<0, 0, 1, 0>>
              /\ BitsValue(SubSeq(Appended, 5, 4 + width)) = n
              /\ Len(Payload(width)) = 11 * (n \div 2) + 6 * (n % 2)
              /\ \A k \in 1..n :
                    DecodedChar(Payload(width), n, k) = enc.input[k]

\* C7 witness: a string with a pair and an odd last character, letters,
\* digits and punctuation among them, is encoded
C7_Witness ==
    /\ AlphanumericCalled /\ enc.pc = "returned"
    /\ IsText(enc.input, ValidAlphanumeric)
    /\ Len(enc.input) = MaxLen
    /\ \E j, k \in 1..Len(enc.input) :
          enc.input[j] \in 65..90 /\ enc.input[k] \notin 48..90

\* the text of a call holds a character that is not valid for its mode
InvalidText ==
    \/ NumericCalled /\ ~IsText(enc.input, ValidNumeric)
    \/ AlphanumericCalled /\ ~IsText(enc.input, ValidAlphanumeric)

\* C8: a call of encode_numeric or encode_alphanumeric on a text with a
\* character that is not valid for its mode ends in an error, not a return,
\* and leaves the stream exactly as it found it.
C8_InvalidTextRejected ==
    InvalidText => enc.pc # "returned" /\ enc.qrdata.value = enc.before

(***************************************************************************)
(* Properties of Matrix::new (Spec).                                       *)
(***************************************************************************)
\* Matrix::new(codewords, Some(w)) for the codewords of the call: the grid
\* built fresh and masked once, by w
Forced(w) == place_all(NewMatrix(codewords, Some(w)), codewords)

AutoSelected == mask = None /\ pc = "done"

\* C1: the grid Matrix::new(codewords, None) returns is, cell for cell and
\* field for field, the grid Matrix::new(codewords, Some(w)) builds for the
\* mask w it selected; and after every pass of the loop over M1..M7 the grid
\* is the fresh grid masked once by the candidate of that pass, never two
\* masks superposed.
C1_AutoEqualsForced ==
    (mask = None /\ pc \in {"for", "done"}) =>
        Forced(matrix.mask) = <<matrix>>

\* C1 witness: a call without a forced mask returns after undoing the last
\* candidate and applying an earlier one again
C1_Witness == AutoSelected /\ matrix.mask \in 1..6

\* C2: when no mask is forced the returned grid carries the mask min_mask,
\* and the score of the grid built fresh for that mask is min_score and is
\* less than or equal to the score of the grid built fresh for each of the
\* masks 0..7.
C2_MinimumScore ==
    AutoSelected =>
        /\ matrix.mask = min_mask
        /\ min_score = score(Forced(min_mask)[1])
        /\ \A w \in 0..7 : min_score <= score(Forced(w)[1])

\* C2 witness: a call without a forced mask returns a mask other than the
\* first candidate
C2_Witness == AutoSelected /\ min_mask # 0 /\ rest = <<>>

\* the codewords of the call have at least one bit for each free cell
EnoughBits == 8 * Len(codewords.value) >= FreeCells(codewords.version)

\* place_all has returned
Placed == pc \in {"placed", "for", "done"}

\* C3: with codewords of at least one bit for each free cell place_all
\* returns, and in the grid after place_all none of the width * width
\* modules is Unset.
C3_NoUnset ==
    /\ Placed =>
          /\ Len(matrix.value) = matrix.width * matrix.width
          /\ \A k \in 1..Len(matrix.value) : matrix.value[k] # Unset
    /\ pc = "panicked" => ~EnoughBits

\* C3 witness: place_all has returned for a symbol with version information
\* and alignment patterns
C3_Witness == pc = "placed" /\ matrix.version >= 7 /\ matrix.width = 45

DataWidth == entry.width

\* cell k (from 1) of the path the claim describes: strips of two columns
\* from the right edge leftwards, the right cell of a row before the left
\* one, rows upwards in the first strip, downwards in the next, and so on;
\* the strips right of column 6 have the columns w-1-2s and w-2-2s, those
\* left of it the columns 5-4, 3-2, 1-0
ZigzagCell(k) ==
    LET w == DataWidth
        s == (k - 1) \div (2 * w)
        r == ((k - 1) % (2 * w)) \div 2
        right == IF s < (w - 7) \div 2 THEN w - 1 - 2 * s ELSE w - 2 - 2 * s
    IN  <<right - ((k - 1) % 2), IF s % 2 = 0 THEN w - 1 - r ELSE r>>

\* the cells of the path so far that were Unset when place_data began, in
\* the order of the path
UnsetOnPath ==
    LET wasUnset(c) == entry.value[c[1] * DataWidth + c[2] + 1] = Unset
    IN  SelectSeq(path, wasUnset)

\* bit n (from 0) of the stream: bit 7 - n mod 8 of codeword n div 8
StreamBit(n) == (qrcode.value[(n \div 8) + 1] \div Pow2(7 - (n % 8))) % 2

\* C10: the traversal of place_data starts at the bottom right cell; its
\* cursor for the column and that for the row never go below 0 (nor does
\* the column col - 1 of the left cell of a pass); it never visits a cell
\* of column 6; it ends, after at most width * (width - 1) visits, with
\* the column cursor at 1, having visited every cell of every other column
\* exactly once, strip of two columns by strip, upwards and downwards in
\* turn; and bit i of the stream is in the i-th cell of the path that was
\* still Unset (a traversal that runs out of codewords stops at the first
\* such cell it has no bit for).
C10_Traversal ==
    /\ pd.col - 1 >= 0 /\ pd.row >= 0
    /\ pd.col < DataWidth /\ pd.row < DataWidth
    /\ Len(path) <= DataWidth * (DataWidth - 1)
    /\ \A k \in 1..Len(path) : path[k][1] # 6 /\ path[k] = ZigzagCell(k)
    /\ path # <<>> => path[1] = <<DataWidth - 1, DataWidth - 1>>
    /\ pd.at = "end" =>
          /\ pd.col = 1
          /\ Len(path) = DataWidth * (DataWidth - 1)
          /\ \A x \in (0..(DataWidth - 1)) \ {6}, y \in 0..(DataWidth - 1) :
                \E k \in 1..Len(path) : path[k] = <<x, y>>
          /\ Cardinality({path[k] : k \in 1..Len(path)}) = Len(path)
    /\ LET cells == UnsetOnPath IN
          /\ Len(cells) = pd.i + (IF pd.at = "panicked" THEN 1 ELSE 0)
          /\ \A n \in 1..pd.i :
                pd.matrix.value[cells[n][1] * DataWidth + cells[n][2] + 1] =
                    (IF StreamBit(n - 1) = 1 THEN DataON ELSE DataOFF)

\* C10 witness: place_data has returned, with the bits of the stream placed
C10_Witness ==
    /\ pd.at = "end" /\ pd.i > 0
    /\ Len(path) = DataWidth * (DataWidth - 1)
    /\ \E n, k \in 0..(pd.i - 1) : StreamBit(n) # StreamBit(k)

(***************************************************************************)
(* Properties of apply_mask (SpecMask).                                    *)
(***************************************************************************)
\* a Data module
IsData(module) == module \in {DataOFF, DataON}

\* the module at column x, row y of a grid: x is the first argument of
\* get and set (the col of place_data), y the second (its row)
ModuleAt(grid, x, y) == grid.value[x * grid.width + y + 1]

\* C11: apply_mask inverts exactly the Data modules whose (row, column)
\* satisfies the predicate of the mask of the matrix, the row being the y
\* and the column the x of get and set (so M1 inverts the Data modules of
\* the even rows, M2 those of the columns divisible by 3), and leaves every
\* other module as it was.
C11_MaskByRowColumn ==
    am.at = "done" =>
        \A x \in 0..(am.matrix.width - 1), y \in 0..(am.matrix.width - 1) :
            LET old == ModuleAt(am.before, x, y)
                new == ModuleAt(am.matrix, x, y)
            IN  IF IsData(old)
                THEN /\ IsData(new)
                     /\ new # old <=> mask_bit(am.matrix.mask, y, x)
                ELSE new = old

(***************************************************************************)
(* Properties of score's line_patterns and dark_proportion (SpecScore).    *)
(***************************************************************************)
\* what a maximal run of len modules of one colour is to contribute
RunPenalty(len) == IF len < 5 THEN 0 ELSE 3 + (len - 5)

\* the if on curr == streak_v has just run for module j of line i, and the
\* run of modules of one colour that module j is in ends there
RunEnds ==
    /\ sc.fn = "line_patterns" /\ sc.at = "finder_i"
    /\ \/ sc.j = sc.matrix.width - 1
       \/ LineModule(sc, sc.i, sc.j + 1) # LineModule(sc, sc.i, sc.j)

\* C12: in line_patterns, for every row and every column, a maximal run of
\* L modules of one colour has added 0 to the score when L < 5 and
\* 3 + (L - 5) when L >= 5, whether it starts at index 0 or after a change
\* of colour.
C12_RunPenalty == RunEnds => sc.run_score = RunPenalty(sc.run_len)

\* the percentage of dark modules (the ON modules of every kind) of a grid
DarkPercent(grid) ==
    LET dark == {k \in 1..Len(grid.value) :
                    grid.value[k] \in {DataON, FinderON, AlignmentON,
                                       TimingON, FormatON, VersionON}}
    IN  (100 * Cardinality(dark)) \div Len(grid.value)

\* the whole steps of 5 by which a percentage is away from 50
StepsFrom50(percent) ==
    (IF percent >= 50 THEN percent - 50 ELSE 50 - percent) \div 5

\* C13: dark_proportion returns 10 * k, k being the whole 5% steps by which
\* the percentage of dark modules of the grid is away from 50: 0 within 5
\* points of 50, and different values for percentages in different bands.
C13_DarkProportion ==
    (sc.fn = "dark_proportion" /\ sc.at = "returned") =>
        sc.result = 10 * StepsFrom50(DarkPercent(sc.matrix))

====
